---- MODULE Spec2Model ----
(***************************************************************************)
(* LD-GAN: the adversarial training step of models/lcgan.py (LCGAN, GAN),  *)
(* its training loop and checkpoints, the construction of its samplers     *)
(* (Distribution), and the conditional normalisation and the spectrally-   *)
(* normalized layers of models/modules.py (CCBN, SN).                      *)
(*                                                                         *)
(* Tensors are abstracted to small integers: a sampled latent or label     *)
(* tensor is one integer, a network's parameter set is the number of       *)
(* effective optimizer updates applied to it, a gradient is the set of     *)
(* backward passes that contributed to it, and a batch of discriminator    *)
(* scores is a sequence with one integer per scored sample.                *)
(***************************************************************************)
EXTENDS Integers, Sequences, FiniteSets, TLC

\* ------------------------------------------------------------------ bounds
MaxBatch == 3      \* largest real batch handed to train_step
MaxCalls == 2      \* train_step calls made on one trainer
MaxIter == 1       \* largest value of the iter argument
RngMod == 8        \* size of the random generator's state space
GenBatch == 2      \* batch_size['gen'], the micro-batch size
MaxSamples == 3    \* sample_ calls made on freshly built samplers
MaxForwards == 3   \* forward calls made on one CCBN
MaxSvs == 2        \* largest num_svs of a spectrally-normalized layer
MaxItrs == 2       \* largest num_itrs of a spectrally-normalized layer
MaxSNForwards == 3 \* forward calls made on one spectrally-normalized layer
MaxIO == 3         \* checkpoint saves and loads made on one trainer
MaxEpochs == 27    \* largest epochs argument of LCGAN.train
MaxLoader == 1     \* largest number of batches the data loader yields per epoch

Trainers == {1, 2}          \* two independent runs; Spec follows run 1 alone
XVals == {0, 1}             \* values of one real sample (with its label)

VARIABLES
    pc,                 \* position of each trainer in train_step
    toggle_grads,       \* self.toggle_grads
    num_classes,        \* self.num_classes
    rng,                \* state of the random generator of the run
    calls,              \* number of train_step calls started
    seed,               \* the seed the run's random generator was started from
    iter,               \* the iter argument of the current call
    inputs,             \* the (inputs, labels) arguments of the current call
    slices,             \* the slices of (inputs, labels) not yet consumed by the loop
    nslices,            \* number of slices torch.split produced in the current call
    slice_no,           \* index of the slice being processed (0 before the loop)
    genP, disP,         \* parameter values of generator / discriminator
    genReq, disReq,     \* requires_grad of generator / discriminator parameters
    genGrad, disGrad,   \* .grad of generator / discriminator parameters
    encP, decP,         \* parameter values of encoder / decoder
    encReq, decReq,     \* requires_grad of encoder / decoder parameters
    encGrad, decGrad,   \* .grad of encoder / decoder parameters
    z, y,               \* self.z, self.y (current content)
    discriminator_fake, \* local of train_step (lines 221 and 252)
    discriminator_real, \* local of train_step (line 221)
    dis_loss,           \* <<discriminator_loss_real, discriminator_loss_fake>> (line 225)
    totals,             \* the four discriminator_*_total locals
    gen_loss_args,      \* the arguments last passed to loss_hinge_gen (line 253)
    generator_loss,     \* local generator_loss
    generator_loss_total,
    ema,                \* calls of self.ema_losses.update made by the current call
    outputs,            \* the record returned by the last completed call
    trace,              \* the operations of the current call, in order
    samples,            \* the samples drawn in the current call, in order
    slice_log,          \* the four quantities of each slice of the current call
    script,             \* the batch and iter trainer 1 was last called with
    diverged,           \* trainer 2 was called with another batch than trainer 1
    dist_cfg,           \* the kinds and category count the samplers are configured with
    dist_pc,            \* position in init_random_samples and the sample_ calls after it
    dobj,               \* the Distribution objects bound to z and y
    dist_rng,           \* state of the random generator
    dist_err,           \* the exception that ended the construction, if any
    sampled_types,      \* the dist_type of every Distribution sample_ has run on
    nsample,            \* number of sample_ calls made
    ccbn_pc,            \* "new" before CCBN.__init__, "built" after it
    ccbn,               \* the attributes of the CCBN object
    ccbn_out,           \* the outcome of the last CCBN.forward call
    nforward,           \* number of CCBN.forward calls made
    sn,                 \* a spectrally-normalized layer: its attributes, weight and buffers
    sn_prev,            \* the mode and the buffers of the layer when its last forward began
    sn_out,             \* what the last forward of the layer returned
    nsn,                \* number of forward calls made on the layer
    files,              \* the checkpoint files on disk: pairs <<file name, content>>
    expect,             \* per network and tag, the state its last save was made from
    io,                 \* the last checkpoint operation and how it ended
    nio,                \* number of checkpoint operations made
    tr_pc,              \* position in LCGAN.train
    tr_epochs,          \* the epochs argument of LCGAN.train
    tr_len,             \* len(data_loader)
    tr_epoch,           \* the loop variable epoch
    tr_iter,            \* the loop variable iter: batches of the epoch already taken
    accuracy_iterations, \* local of LCGAN.train
    training,           \* the training flag (train() / eval()) of each network
    requests,           \* what train asked of its collaborators, in order, with the epoch
    step_modes          \* the training flags each train_step call of train began with

cfgVars == <<toggle_grads, num_classes, seed>>
reqVars == <<genReq, disReq>>
gradVars == <<genGrad, disGrad>>
parVars == <<genP, disP>>
smpVars == <<rng, z, y, samples>>
argVars == <<iter, inputs, slices, nslices, slice_no>>
disLocals == <<discriminator_real, dis_loss, totals>>
genLocals == <<generator_loss, generator_loss_total>>
logVars == <<ema, trace, slice_log, gen_loss_args>>
aeVars == <<encP, decP, encReq, decReq, encGrad, decGrad>>
trainerVars == <<pc, calls, cfgVars, reqVars, gradVars, parVars, aeVars, smpVars, argVars,
                 discriminator_fake, disLocals, genLocals, logVars, outputs>>
envVars == <<script, diverged>>
distVars == <<dist_cfg, dist_pc, dobj, dist_rng, dist_err, sampled_types, nsample>>
ccbnVars == <<ccbn_pc, ccbn, ccbn_out, nforward>>
snVars == <<sn, sn_prev, sn_out, nsn>>
ckptVars == <<files, expect, io, nio>>
trainVars == <<tr_pc, tr_epochs, tr_len, tr_epoch, tr_iter, accuracy_iterations,
               training, requests, step_modes>>
vars == <<trainerVars, envVars, distVars, ccbnVars, snVars, ckptVars, trainVars>>

\* What the operations of one unit leave alone: every other unit.
notDist == <<trainerVars, envVars, ccbnVars, snVars, ckptVars, trainVars>>
notCCBN == <<trainerVars, envVars, distVars, snVars, ckptVars, trainVars>>
notSN == <<trainerVars, envVars, distVars, ccbnVars, ckptVars, trainVars>>

\* ------------------------------------------------------------ arithmetic
RECURSIVE GCD(_, _)
GCD(a, b) == IF b = 0 THEN a ELSE GCD(b, a % b)

Abs(n) == IF n < 0 THEN -n ELSE n

\* A float is an exact fraction <<numerator, denominator>> in lowest terms.
Rat(n, d) == LET g == GCD(Abs(n), d) IN <<n \div g, d \div g>>

RatAdd(a, b) == Rat(a[1] * b[2] + b[1] * a[2], a[2] * b[2])

RatNeg(a) == <<-a[1], a[2]>>

Zero == Rat(0, 1)

RECURSIVE Sum(_)
Sum(s) == IF s = <<>> THEN 0 ELSE Head(s) + Sum(Tail(s))

\* torch.mean(t).item()
Mean(s) == Rat(Sum(s), Len(s))

relu(n) == IF n > 0 THEN n ELSE 0

Min(a, b) == IF a < b THEN a ELSE b

\* ------------------------------------------------------- random sampling
\* One draw of the run's random generator (a linear congruential step).
NextRng(r) == (5 * r + 3) % RngMod

RecognizedKinds == {"normal", "categorical", "comparison"}

\* Distribution.sample_: the new content of the tensor and the generator state.
\* 'normal' and 'categorical' draw from the generator, 'comparison' zeroes the
\* tensor without drawing, any other dist_type falls through every branch.
sample_(dist_type, val, r, num_categories) ==
    IF dist_type = "normal"
    THEN [val |-> NextRng(r), rng |-> NextRng(r)]
    ELSE IF dist_type = "categorical"
    THEN [val |-> NextRng(r) % num_categories, rng |-> NextRng(r)]
    ELSE IF dist_type = "comparison"
    THEN [val |-> 0, rng |-> r]
    ELSE [val |-> val, rng |-> r]

\* The kind of the label sampler (lines 57 and 80).
LabelKind(nc) == IF nc = 2 THEN "comparison" ELSE "categorical"

\* ------------------------------------------------------------- networks
\* torch.split(t, n): consecutive chunks of n rows, the last one shorter.
RECURSIVE split(_, _)
split(s, n) ==
    IF Len(s) <= n THEN <<s>>
    ELSE <<SubSeq(s, 1, n)>> \o split(SubSeq(s, n + 1, Len(s)), n)

\* zip(a, b): pairs up to the shorter of the two.
zip(a, b) == [i \in 1..Min(Len(a), Len(b)) |-> <<a[i], b[i]>>]

\* The frozen encoder, one latent per real sample.
encoder(x) == [i \in 1..Len(x) |-> x[i] + 1]

\* Generator.forward: one synthetic sample per row of z.
generator(p, zv, yv) == [i \in 1..GenBatch |-> (p + zv + yv + i) % 4]

\* Discriminator.forward: one score per sample.
discriminator(p, img, cls) ==
    [i \in 1..Len(img) |-> ((p + img[i] + 2 * cls[i]) % 5) - 2]

\* GAN.forward with x given: <<fake scores, real scores>> (lines 461-479).
\* policy = '' makes DiffAugment the identity and cs is None.
gan_with_real(gp, dp, zv, yv, x, dy) ==
    LET latent_x == encoder(x)
        generated == generator(gp, zv, yv)
        discriminator_input == generated \o latent_x
        discriminator_classes == [i \in 1..GenBatch |-> yv] \o dy
        target == discriminator(dp, discriminator_input, discriminator_classes)
    IN <<SubSeq(target, 1, Len(generated)),
         SubSeq(target, Len(generated) + 1, Len(target))>>

\* GAN.forward without x: the fake scores only (lines 461-484).
gan_fake_only(gp, dp, zv, yv) ==
    discriminator(dp, generator(gp, zv, yv), [i \in 1..GenBatch |-> yv])

\* ---------------------------------------------------------------- losses
\* loss_hinge_dis with a fixed margin of 1: <<loss_real, loss_fake>>. It is
\* handed the tracker and iter and leaves the tracker as it is.
loss_hinge_dis(dis_fake, dis_real, ema_losses, it) ==
    <<Mean([i \in 1..Len(dis_real) |-> relu(1 - dis_real[i])]),
      Mean([i \in 1..Len(dis_fake) |-> relu(1 + dis_fake[i])])>>

\* loss_hinge_gen: minus the mean fake score; the second argument is unused.
loss_hinge_gen(dis_fake, extra) == RatNeg(Mean(dis_fake))

\* ------------------------------------------------------------- optimizer
\* Adam.step on one network: parameters without a gradient are skipped.
optim_step(p, grad) == IF grad = {} THEN p ELSE p + 1

\* ---------------------------------------------------- LCGAN.train_step
Upd(f, t, v) == [f EXCEPT ![t] = v]

Log(t, event) == trace' = Upd(trace, t, Append(trace[t], event))

NoTotals == [loss_real |-> Zero, loss_fake |-> Zero, real |-> Zero, fake |-> Zero]

NoOutputs == [gen_loss |-> Zero, dis_loss_real |-> Zero, dis_loss_fake |-> Zero,
              dis_real |-> Zero, dis_fake |-> Zero]

\* The gradient contribution of one backward pass.
Pass(t, phase) == <<calls[t], phase, slice_no[t]>>

\* The networks whose operations GAN.forward records for backward (lines
\* 461-468): the discriminator always, the generator under
\* set_grad_enabled(train_generator); the encoder runs under no_grad and the
\* decoder is not run.
Recorded(train_generator) ==
    {"discriminator"} \cup (IF train_generator THEN {"generator"} ELSE {})

\* backward() adds its pass to the .grad of a recorded network whose
\* parameters require a gradient.
Accumulate(grad, req, net, recorded, pass) ==
    IF req /\ net \in recorded THEN grad \cup {pass} ELSE grad

\* train_step(inputs, labels, iter) is entered (line 190). A real sample is
\* one integer and its label is that integer. The logs of the call start empty.
train_step_enter(t, batch, it) ==
    /\ pc[t] = "idle"
    /\ calls[t] < MaxCalls
    /\ pc' = Upd(pc, t, "zero_grads")
    /\ calls' = Upd(calls, t, calls[t] + 1)
    /\ iter' = Upd(iter, t, it)
    /\ inputs' = Upd(inputs, t, <<batch, batch>>)
    /\ ema' = Upd(ema, t, <<>>)
    /\ trace' = Upd(trace, t, <<>>)
    /\ samples' = Upd(samples, t, <<>>)
    /\ slice_log' = Upd(slice_log, t, <<>>)
    /\ gen_loss_args' = Upd(gen_loss_args, t, <<>>)
    /\ UNCHANGED <<cfgVars, reqVars, gradVars, parVars, aeVars, rng, z, y, slices,
                   nslices, slice_no, discriminator_fake, disLocals, genLocals,
                   outputs, distVars, ccbnVars, snVars, ckptVars>>

\* lines 194-195: both optimizers' zero_grad.
ZeroGrads(t) ==
    /\ pc[t] = "zero_grads"
    /\ genGrad' = Upd(genGrad, t, {})
    /\ disGrad' = Upd(disGrad, t, {})
    /\ pc' = Upd(pc, t, "split")
    /\ UNCHANGED <<calls, cfgVars, reqVars, parVars, aeVars, smpVars, argVars,
                   discriminator_fake, disLocals, genLocals, logVars, outputs, envVars,
                   distVars, ccbnVars, snVars, ckptVars, trainVars>>

\* lines 197-200: torch.split of inputs and labels; the loop iterates zip of them.
SplitInputs(t) ==
    /\ pc[t] = "split"
    /\ LET xs == split(inputs[t][1], GenBatch)
           ys == split(inputs[t][2], GenBatch)
       IN /\ slices' = Upd(slices, t, zip(xs, ys))
          /\ nslices' = Upd(nslices, t, Len(zip(xs, ys)))
    /\ pc' = Upd(pc, t, "toggle_dis")
    /\ UNCHANGED <<calls, cfgVars, reqVars, gradVars, parVars, aeVars, smpVars, iter,
                   inputs, slice_no, discriminator_fake, disLocals, genLocals, logVars,
                   outputs, envVars, distVars, ccbnVars, snVars, ckptVars, trainVars>>

\* A discriminator phase that leaves the generator's parameters trainable.
ToggleDis_no_freeze(t) ==
    /\ pc[t] = "toggle_dis"
    /\ IF toggle_grads[t]
       THEN /\ disReq' = Upd(disReq, t, TRUE)
            /\ genReq' = genReq
       ELSE /\ disReq' = disReq
            /\ genReq' = genReq
    /\ pc' = Upd(pc, t, "loop")
    /\ UNCHANGED <<calls, cfgVars, gradVars, parVars, aeVars, smpVars, argVars,
                   discriminator_fake, disLocals, genLocals, logVars, outputs, envVars,
                   distVars, ccbnVars, snVars, ckptVars, trainVars>>

\* lines 202-204: freeze the generator, unfreeze the discriminator
\* (toggle_grad, lines 153-155, sets requires_grad of every parameter).
ToggleDis(t) ==
    /\ pc[t] = "toggle_dis"
    /\ IF toggle_grads[t]
       THEN /\ genReq' = Upd(genReq, t, FALSE)
            /\ disReq' = Upd(disReq, t, TRUE)
       ELSE /\ genReq' = genReq
            /\ disReq' = disReq
    /\ pc' = Upd(pc, t, "loop")
    /\ UNCHANGED <<calls, cfgVars, gradVars, parVars, aeVars, smpVars, argVars,
                   discriminator_fake, disLocals, genLocals, logVars, outputs, envVars,
                   distVars, ccbnVars, snVars, ckptVars, trainVars>>

\* A loop that keeps the running totals of the earlier slices.
LoopBody_no_reset(t) ==
    /\ pc[t] = "loop"
    /\ slices[t] # <<>>
    /\ slice_no' = Upd(slice_no, t, slice_no[t] + 1)
    /\ disGrad' = Upd(disGrad, t, {})
    /\ pc' = Upd(pc, t, "d_sample_z")
    /\ UNCHANGED <<calls, cfgVars, reqVars, genGrad, parVars, aeVars, smpVars, iter,
                   inputs, slices, nslices, discriminator_fake, disLocals, genLocals,
                   logVars, outputs, envVars, distVars, ccbnVars, snVars, ckptVars,
                   trainVars>>

\* A loop that leaves the gradient of the slice before in place.
LoopBody_no_zero_grad(t) ==
    /\ pc[t] = "loop"
    /\ slices[t] # <<>>
    /\ slice_no' = Upd(slice_no, t, slice_no[t] + 1)
    /\ totals' = Upd(totals, t, NoTotals)
    /\ pc' = Upd(pc, t, "d_sample_z")
    /\ UNCHANGED <<calls, cfgVars, reqVars, gradVars, parVars, aeVars, smpVars, iter,
                   inputs, slices, nslices, discriminator_fake, discriminator_real,
                   dis_loss, genLocals, logVars, outputs, envVars, distVars, ccbnVars,
                   snVars, ckptVars, trainVars>>

\* lines 206-213: the next slice, if any: the discriminator's zero_grad and the
\* reset of the four running totals.
LoopBody(t) ==
    /\ pc[t] = "loop"
    /\ slices[t] # <<>>
    /\ slice_no' = Upd(slice_no, t, slice_no[t] + 1)
    /\ disGrad' = Upd(disGrad, t, {})
    /\ totals' = Upd(totals, t, NoTotals)
    /\ pc' = Upd(pc, t, "d_sample_z")
    /\ UNCHANGED <<calls, cfgVars, reqVars, genGrad, parVars, aeVars, smpVars, iter,
                   inputs, slices, nslices, discriminator_fake, discriminator_real,
                   dis_loss, genLocals, logVars, outputs, envVars, distVars, ccbnVars,
                   snVars, ckptVars, trainVars>>

\* line 206: the loop is exhausted.
LoopExit(t) ==
    /\ pc[t] = "loop"
    /\ slices[t] = <<>>
    /\ pc' = Upd(pc, t, "toggle_gen")
    /\ UNCHANGED <<calls, cfgVars, reqVars, gradVars, parVars, aeVars, smpVars,
                   argVars, discriminator_fake, disLocals, genLocals, logVars, outputs,
                   envVars, distVars, ccbnVars, snVars, ckptVars, trainVars>>

\* A latent sampler that draws from a generator the run's seed does not reach.
SampleZ_unseeded(t, from, to) ==
    /\ pc[t] = from
    /\ \E v \in {0, 1} :
          /\ z' = Upd(z, t, v)
          /\ samples' = Upd(samples, t, Append(samples[t], <<"z", v>>))
    /\ Log(t, "z.sample_")
    /\ pc' = Upd(pc, t, to)
    /\ UNCHANGED <<calls, cfgVars, reqVars, gradVars, parVars, aeVars, rng, y, argVars,
                   discriminator_fake, disLocals, genLocals, ema, slice_log,
                   gen_loss_args, outputs, envVars, distVars, ccbnVars, snVars,
                   ckptVars, trainVars>>

\* self.z.sample_() (lines 215 and 250; Distribution.sample_, lines 319-321).
SampleZ(t, from, to) ==
    /\ pc[t] = from
    /\ LET s == sample_("normal", z[t], rng[t], 0)
       IN /\ z' = Upd(z, t, s.val)
          /\ rng' = Upd(rng, t, s.rng)
          /\ samples' = Upd(samples, t, Append(samples[t], <<"z", s.val>>))
    /\ Log(t, "z.sample_")
    /\ pc' = Upd(pc, t, to)
    /\ UNCHANGED <<calls, cfgVars, reqVars, gradVars, parVars, aeVars, y, argVars,
                   discriminator_fake, disLocals, genLocals, ema, slice_log,
                   gen_loss_args, outputs, envVars, distVars, ccbnVars, snVars,
                   ckptVars, trainVars>>

\* self.y.sample_() (lines 216 and 251; Distribution.sample_, lines 323-327).
SampleY(t, from, to) ==
    /\ pc[t] = from
    /\ LET s == sample_(LabelKind(num_classes[t]), y[t], rng[t], num_classes[t])
       IN /\ y' = Upd(y, t, s.val)
          /\ rng' = Upd(rng, t, s.rng)
          /\ samples' = Upd(samples, t, Append(samples[t], <<"y", s.val>>))
    /\ Log(t, "y.sample_")
    /\ pc' = Upd(pc, t, to)
    /\ UNCHANGED <<calls, cfgVars, reqVars, gradVars, parVars, aeVars, z, argVars,
                   discriminator_fake, disLocals, genLocals, ema, slice_log,
                   gen_loss_args, outputs, envVars, distVars, ccbnVars, snVars,
                   ckptVars, trainVars>>

DisSampleZ(t) == SampleZ(t, "d_sample_z", "d_sample_y")    \* line 215

DisSampleY(t) == SampleY(t, "d_sample_y", "d_forward")     \* line 216

\* lines 218-221: the forward pass of the slice, generator under no_grad.
DisForward(t) ==
    /\ pc[t] = "d_forward"
    /\ LET x == Head(slices[t])[1]
           dy == Head(slices[t])[2]
           scores == gan_with_real(genP[t], disP[t], z[t], y[t], x, dy)
       IN /\ discriminator_fake' = Upd(discriminator_fake, t, scores[1])
          /\ discriminator_real' = Upd(discriminator_real, t, scores[2])
    /\ Log(t, "gan.forward")
    /\ pc' = Upd(pc, t, "d_loss")
    /\ UNCHANGED <<calls, cfgVars, reqVars, gradVars, parVars, aeVars, smpVars,
                   argVars, dis_loss, totals, genLocals, ema, slice_log, gen_loss_args,
                   outputs, envVars, distVars, ccbnVars, snVars, ckptVars, trainVars>>

\* lines 225-228: the hinge losses of the slice.
DisLoss(t) ==
    /\ pc[t] = "d_loss"
    /\ dis_loss' = Upd(dis_loss, t,
                       loss_hinge_dis(discriminator_fake[t], discriminator_real[t],
                                      ema[t], iter[t]))
    /\ pc' = Upd(pc, t, "d_backward")
    /\ UNCHANGED <<calls, cfgVars, reqVars, gradVars, parVars, aeVars, smpVars,
                   argVars, discriminator_fake, discriminator_real, totals, genLocals,
                   logVars, outputs, envVars, distVars, ccbnVars, snVars, ckptVars,
                   trainVars>>

\* line 229: discriminator_loss.backward(). The generator ran with gradient
\* recording disabled (line 467), so only discriminator parameters can
\* receive a gradient.
DisBackward(t) ==
    /\ pc[t] = "d_backward"
    /\ disGrad' = Upd(disGrad, t,
                      IF disReq[t] THEN disGrad[t] \cup {Pass(t, "dis")} ELSE disGrad[t])
    /\ encGrad' = Upd(encGrad, t, Accumulate(encGrad[t], encReq[t], "encoder",
                                             Recorded(FALSE), Pass(t, "dis")))
    /\ decGrad' = Upd(decGrad, t, Accumulate(decGrad[t], decReq[t], "decoder",
                                             Recorded(FALSE), Pass(t, "dis")))
    /\ Log(t, "dis.backward")
    /\ pc' = Upd(pc, t, "d_totals")
    /\ UNCHANGED <<calls, cfgVars, reqVars, genGrad, parVars, encP, decP, encReq,
                   decReq, smpVars, argVars, discriminator_fake, disLocals, genLocals,
                   ema, slice_log, gen_loss_args, outputs, envVars, distVars, ccbnVars,
                   snVars, ckptVars, trainVars>>

\* lines 233-236: the slice's four quantities are added to the running totals.
DisTotals(t) ==
    /\ pc[t] = "d_totals"
    /\ LET q == [loss_real |-> dis_loss[t][1],
                 loss_fake |-> dis_loss[t][2],
                 real |-> Mean(discriminator_real[t]),
                 fake |-> Mean(discriminator_fake[t])]
       IN /\ totals' = Upd(totals, t,
                [loss_real |-> RatAdd(totals[t].loss_real, q.loss_real),
                 loss_fake |-> RatAdd(totals[t].loss_fake, q.loss_fake),
                 real |-> RatAdd(totals[t].real, q.real),
                 fake |-> RatAdd(totals[t].fake, q.fake)])
          /\ slice_log' = Upd(slice_log, t, Append(slice_log[t], q))
    /\ pc' = Upd(pc, t, "d_step")
    /\ UNCHANGED <<calls, cfgVars, reqVars, gradVars, parVars, aeVars, smpVars,
                   argVars, discriminator_fake, discriminator_real, dis_loss,
                   genLocals, ema, trace, gen_loss_args, outputs, envVars, distVars,
                   ccbnVars, snVars, ckptVars, trainVars>>

\* A discriminator optimizer that steps once for the whole real batch.
DisStep_whole_batch(t) ==
    /\ pc[t] = "d_step"
    /\ slices' = Upd(slices, t, Tail(slices[t]))
    /\ IF Tail(slices[t]) = <<>>
       THEN /\ disP' = Upd(disP, t, optim_step(disP[t], disGrad[t]))
            /\ Log(t, "dis.step")
       ELSE /\ disP' = disP
            /\ trace' = trace
    /\ pc' = Upd(pc, t, "loop")
    /\ UNCHANGED <<calls, cfgVars, reqVars, gradVars, genP, aeVars, smpVars, iter,
                   inputs, nslices, slice_no, discriminator_fake, disLocals, genLocals,
                   ema, slice_log, gen_loss_args, outputs, envVars, distVars, ccbnVars,
                   snVars, ckptVars, trainVars>>

\* line 238: self.discriminator.optim.step(); the loop moves to the next slice.
DisStep(t) ==
    /\ pc[t] = "d_step"
    /\ disP' = Upd(disP, t, optim_step(disP[t], disGrad[t]))
    /\ slices' = Upd(slices, t, Tail(slices[t]))
    /\ Log(t, "dis.step")
    /\ pc' = Upd(pc, t, "loop")
    /\ UNCHANGED <<calls, cfgVars, reqVars, gradVars, genP, aeVars, smpVars, iter,
                   inputs, nslices, slice_no, discriminator_fake, disLocals, genLocals,
                   ema, slice_log, gen_loss_args, outputs, envVars, distVars, ccbnVars,
                   snVars, ckptVars, trainVars>>

\* A toggle that unfreezes every parameter of self.gan, the autoencoder's
\* included, before freezing the discriminator.
ToggleGen_whole_gan(t) ==
    /\ pc[t] = "toggle_gen"
    /\ IF toggle_grads[t]
       THEN /\ genReq' = Upd(genReq, t, TRUE)
            /\ encReq' = Upd(encReq, t, TRUE)
            /\ decReq' = Upd(decReq, t, TRUE)
            /\ disReq' = Upd(disReq, t, FALSE)
       ELSE /\ genReq' = genReq
            /\ encReq' = encReq
            /\ decReq' = decReq
            /\ disReq' = disReq
    /\ pc' = Upd(pc, t, "g_zero_grad")
    /\ UNCHANGED <<calls, cfgVars, gradVars, parVars, encP, decP, encGrad, decGrad,
                   smpVars, argVars, discriminator_fake, disLocals, genLocals, logVars,
                   outputs, envVars, distVars, ccbnVars, snVars, ckptVars, trainVars>>

\* lines 242-244: unfreeze the generator, freeze the discriminator.
ToggleGen(t) ==
    /\ pc[t] = "toggle_gen"
    /\ IF toggle_grads[t]
       THEN /\ genReq' = Upd(genReq, t, TRUE)
            /\ disReq' = Upd(disReq, t, FALSE)
       ELSE /\ genReq' = genReq
            /\ disReq' = disReq
    /\ pc' = Upd(pc, t, "g_zero_grad")
    /\ UNCHANGED <<calls, cfgVars, gradVars, parVars, aeVars, smpVars, argVars,
                   discriminator_fake, disLocals, genLocals, logVars, outputs, envVars,
                   distVars, ccbnVars, snVars, ckptVars, trainVars>>

\* lines 246-248: the generator's zero_grad; generator_loss_total = 0.
GenZeroGrad(t) ==
    /\ pc[t] = "g_zero_grad"
    /\ genGrad' = Upd(genGrad, t, {})
    /\ generator_loss_total' = Upd(generator_loss_total, t, Zero)
    /\ pc' = Upd(pc, t, "g_sample_z")
    /\ UNCHANGED <<calls, cfgVars, reqVars, disGrad, parVars, aeVars, smpVars, argVars,
                   discriminator_fake, disLocals, generator_loss, logVars, outputs,
                   envVars, distVars, ccbnVars, snVars, ckptVars, trainVars>>

\* A generator phase that reuses the latent sample of the last slice.
GenSampleZ_reuse(t) ==
    /\ pc[t] = "g_sample_z"
    /\ pc' = Upd(pc, t, "g_sample_y")
    /\ UNCHANGED <<calls, cfgVars, reqVars, gradVars, parVars, aeVars, smpVars,
                   argVars, discriminator_fake, disLocals, genLocals, logVars, outputs,
                   envVars, distVars, ccbnVars, snVars, ckptVars, trainVars>>

GenSampleZ(t) == SampleZ(t, "g_sample_z", "g_sample_y")    \* line 250

GenSampleY(t) == SampleY(t, "g_sample_y", "g_forward")     \* line 251

\* line 252: the generator-phase forward pass; discriminator_fake is rebound.
GenForward(t) ==
    /\ pc[t] = "g_forward"
    /\ discriminator_fake' =
          Upd(discriminator_fake, t, gan_fake_only(genP[t], disP[t], z[t], y[t]))
    /\ Log(t, "gan.forward")
    /\ pc' = Upd(pc, t, "g_loss")
    /\ UNCHANGED <<calls, cfgVars, reqVars, gradVars, parVars, aeVars, smpVars,
                   argVars, disLocals, genLocals, ema, slice_log, gen_loss_args,
                   outputs, envVars, distVars, ccbnVars, snVars, ckptVars, trainVars>>

\* line 253: loss_hinge_gen(discriminator_fake, discriminator_real_total).
GenLoss(t) ==
    /\ pc[t] = "g_loss"
    /\ gen_loss_args' = Upd(gen_loss_args, t, <<discriminator_fake[t], totals[t].real>>)
    /\ generator_loss' =
          Upd(generator_loss, t, loss_hinge_gen(discriminator_fake[t], totals[t].real))
    /\ pc' = Upd(pc, t, "g_backward")
    /\ UNCHANGED <<calls, cfgVars, reqVars, gradVars, parVars, aeVars, smpVars,
                   argVars, discriminator_fake, disLocals, generator_loss_total, ema,
                   trace, slice_log, outputs, envVars, distVars, ccbnVars, snVars,
                   ckptVars, trainVars>>

\* line 254: generator_loss.backward(). The loss runs through both networks,
\* so every parameter that requires a gradient receives one.
GenBackward(t) ==
    /\ pc[t] = "g_backward"
    /\ genGrad' = Upd(genGrad, t,
                      IF genReq[t] THEN genGrad[t] \cup {Pass(t, "gen")} ELSE genGrad[t])
    /\ disGrad' = Upd(disGrad, t,
                      IF disReq[t] THEN disGrad[t] \cup {Pass(t, "gen")} ELSE disGrad[t])
    /\ encGrad' = Upd(encGrad, t, Accumulate(encGrad[t], encReq[t], "encoder",
                                             Recorded(TRUE), Pass(t, "gen")))
    /\ decGrad' = Upd(decGrad, t, Accumulate(decGrad[t], decReq[t], "decoder",
                                             Recorded(TRUE), Pass(t, "gen")))
    /\ Log(t, "gen.backward")
    /\ pc' = Upd(pc, t, "ema_update")
    /\ UNCHANGED <<calls, cfgVars, reqVars, parVars, encP, decP, encReq, decReq,
                   smpVars, argVars, discriminator_fake, disLocals, genLocals, ema,
                   slice_log, gen_loss_args, outputs, envVars, distVars, ccbnVars,
                   snVars, ckptVars, trainVars>>

\* A tracker update keyed by the slice counter instead of iter.
EmaUpdate_keyed_by_slice(t) ==
    /\ pc[t] = "ema_update"
    /\ LET total == RatAdd(generator_loss_total[t], generator_loss[t])
       IN /\ generator_loss_total' = Upd(generator_loss_total, t, total)
          /\ ema' = Upd(ema, t, Append(ema[t],
                        [cur |-> total, mode |-> "generator_loss", itr |-> slice_no[t]]))
    /\ Log(t, "ema.update")
    /\ pc' = Upd(pc, t, "g_step")
    /\ UNCHANGED <<calls, cfgVars, reqVars, gradVars, parVars, aeVars, smpVars,
                   argVars, discriminator_fake, disLocals, generator_loss, slice_log,
                   gen_loss_args, outputs, envVars, distVars, ccbnVars, snVars,
                   ckptVars, trainVars>>

\* lines 258-259: self.ema_losses.update(generator_loss_total, 'generator_loss', iter).
EmaUpdate(t) ==
    /\ pc[t] = "ema_update"
    /\ LET total == RatAdd(generator_loss_total[t], generator_loss[t])
       IN /\ generator_loss_total' = Upd(generator_loss_total, t, total)
          /\ ema' = Upd(ema, t, Append(ema[t],
                        [cur |-> total, mode |-> "generator_loss", itr |-> iter[t]]))
    /\ Log(t, "ema.update")
    /\ pc' = Upd(pc, t, "g_step")
    /\ UNCHANGED <<calls, cfgVars, reqVars, gradVars, parVars, aeVars, smpVars,
                   argVars, discriminator_fake, disLocals, generator_loss, slice_log,
                   gen_loss_args, outputs, envVars, distVars, ccbnVars, snVars,
                   ckptVars, trainVars>>

\* A generator step taken by an optimizer that holds both networks' parameters.
GenStep_both_networks(t) ==
    /\ pc[t] = "g_step"
    /\ genP' = Upd(genP, t, optim_step(genP[t], genGrad[t]))
    /\ disP' = Upd(disP, t, optim_step(disP[t], disGrad[t]))
    /\ Log(t, "gen.step")
    /\ pc' = Upd(pc, t, "return")
    /\ UNCHANGED <<calls, cfgVars, reqVars, gradVars, aeVars, smpVars, argVars,
                   discriminator_fake, disLocals, genLocals, ema, slice_log,
                   gen_loss_args, outputs, envVars, distVars, ccbnVars, snVars,
                   ckptVars, trainVars>>

\* line 261: self.generator.optim.step(); the optimizer holds the generator's
\* parameters only (line 366).
GenStep(t) ==
    /\ pc[t] = "g_step"
    /\ genP' = Upd(genP, t, optim_step(genP[t], genGrad[t]))
    /\ Log(t, "gen.step")
    /\ pc' = Upd(pc, t, "return")
    /\ UNCHANGED <<calls, cfgVars, reqVars, gradVars, disP, aeVars, smpVars, argVars,
                   discriminator_fake, disLocals, genLocals, ema, slice_log,
                   gen_loss_args, outputs, envVars, distVars, ccbnVars, snVars,
                   ckptVars, trainVars>>

\* lines 263-269: the metrics record is built and returned; the locals of the
\* call end with it.
Return(t) ==
    /\ pc[t] = "return"
    /\ outputs' = Upd(outputs, t,
          [gen_loss |-> generator_loss_total[t],
           dis_loss_real |-> totals[t].loss_real,
           dis_loss_fake |-> totals[t].loss_fake,
           dis_real |-> totals[t].real,
           dis_fake |-> totals[t].fake])
    /\ iter' = Upd(iter, t, 0)
    /\ inputs' = Upd(inputs, t, <<>>)
    /\ slices' = Upd(slices, t, <<>>)
    /\ nslices' = Upd(nslices, t, 0)
    /\ slice_no' = Upd(slice_no, t, 0)
    /\ discriminator_fake' = Upd(discriminator_fake, t, <<>>)
    /\ discriminator_real' = Upd(discriminator_real, t, <<>>)
    /\ dis_loss' = Upd(dis_loss, t, <<Zero, Zero>>)
    /\ totals' = Upd(totals, t, NoTotals)
    /\ generator_loss' = Upd(generator_loss, t, Zero)
    /\ generator_loss_total' = Upd(generator_loss_total, t, Zero)
    /\ pc' = Upd(pc, t, "idle")
    /\ UNCHANGED <<calls, cfgVars, reqVars, gradVars, parVars, aeVars, smpVars,
                   logVars, envVars, distVars, ccbnVars, snVars, ckptVars, trainVars>>

\* One step of a train_step call in progress.
Step(t) ==
    \/ ZeroGrads(t) \/ SplitInputs(t) \/ ToggleDis(t)
    \/ LoopBody(t) \/ LoopExit(t)
    \/ DisSampleZ(t) \/ DisSampleY(t) \/ DisForward(t) \/ DisLoss(t)
    \/ DisBackward(t) \/ DisTotals(t) \/ DisStep(t)
    \/ ToggleGen(t) \/ GenZeroGrad(t) \/ GenSampleZ(t) \/ GenSampleY(t)
    \/ GenForward(t) \/ GenLoss(t) \/ GenBackward(t) \/ EmaUpdate(t)
    \/ GenStep(t) \/ Return(t)

\* ------------------------------------------- Distribution (the samplers)
KindsTried == RecognizedKinds \cup {"uniform"}

\* Distribution(tensor): a tensor without any sampler attribute yet.
Distribution(data) ==
    [has_type |-> FALSE, dist_type |-> "", dist_kwargs |-> [k \in {} |-> 0],
     attributes |-> {}, data |-> data]

\* The keyword a branch of init_distribution reads (lines 313 and 315).
Required(dist_type) ==
    IF dist_type = "normal" THEN {"mean", "var"} ELSE {"num_categories"}

\* dist_type and dist_kwargs are stored before anything is looked at (309-310).
Stored(obj, dist_type, kwargs) ==
    [obj EXCEPT !.has_type = TRUE, !.dist_type = dist_type, !.dist_kwargs = kwargs,
                !.attributes = IF /\ dist_type \in RecognizedKinds
                                  /\ Required(dist_type) \subseteq DOMAIN kwargs
                               THEN @ \cup Required(dist_type) ELSE @]

\* An init_distribution whose last branch does nothing.
init_distribution_no_raise(obj, dist_type, kwargs) ==
    [obj |-> Stored(obj, dist_type, kwargs),
     raised |-> IF dist_type \notin RecognizedKinds THEN ""
                ELSE IF Required(dist_type) \subseteq DOMAIN kwargs THEN ""
                ELSE "KeyError"]

\* Distribution.init_distribution (lines 308-317): a recognized kind takes its
\* parameters from the keywords (KeyError if one is missing); any other kind
\* raises ValueError.
init_distribution(obj, dist_type, kwargs) ==
    [obj |-> Stored(obj, dist_type, kwargs),
     raised |-> IF dist_type \notin RecognizedKinds THEN "ValueError"
                ELSE IF Required(dist_type) \subseteq DOMAIN kwargs THEN ""
                ELSE "KeyError"]

\* Distribution.to (lines 331-338): a new Distribution re-initialised from the
\* attributes of self; whatever the re-initialisation raises is swallowed, the
\* AttributeError of an object without dist_type included.
to(obj) ==
    LET new_obj == Distribution(obj.data)
    IN IF obj.has_type
       THEN init_distribution(new_obj, obj.dist_type, obj.dist_kwargs).obj
       ELSE new_obj

Samplers == {"z", "y"}

KindOf(s) == IF s = "z" THEN dist_cfg.zkind ELSE dist_cfg.ykind

\* lines 75 and 79: the tensor is made (torch.randn draws, torch.zeros does not).
DistNew(s) ==
    /\ dist_pc = <<s, "new">>
    /\ IF s = "z"
       THEN /\ dobj' = [dobj EXCEPT ![s] = Distribution(NextRng(dist_rng))]
            /\ dist_rng' = NextRng(dist_rng)
       ELSE /\ dobj' = [dobj EXCEPT ![s] = Distribution(0)]
            /\ dist_rng' = dist_rng
    /\ dist_pc' = <<s, "init">>
    /\ UNCHANGED <<dist_cfg, dist_err, sampled_types, nsample>>
    /\ UNCHANGED notDist

\* lines 76 and 80: init_distribution; an exception leaves init_random_samples
\* and LCGAN.__init__, which catch nothing.
DistInit(s) ==
    /\ dist_pc = <<s, "init">>
    /\ LET r == init_distribution(dobj[s], KindOf(s),
                                  IF s = "z" THEN [mean |-> 0, var |-> 1]
                                  ELSE [num_categories |-> dist_cfg.num_classes])
       IN /\ dobj' = [dobj EXCEPT ![s] = r.obj]
          /\ dist_err' = r.raised
          /\ dist_pc' = IF r.raised = "" THEN <<s, "to">> ELSE <<s, "failed">>
    /\ UNCHANGED <<dist_cfg, dist_rng, sampled_types, nsample>>
    /\ UNCHANGED notDist

\* lines 77 and 81: the sampler is replaced by its moved copy.
DistTo(s) ==
    /\ dist_pc = <<s, "to">>
    /\ dobj' = [dobj EXCEPT ![s] = to(dobj[s])]
    /\ dist_pc' = IF s = "z" THEN <<"y", "new">> ELSE <<"z", "sample">>
    /\ UNCHANGED <<dist_cfg, dist_rng, dist_err, sampled_types, nsample>>
    /\ UNCHANGED notDist

\* Whether sample_ finds every attribute it reads (lines 319-327).
Readable(obj) ==
    /\ obj.has_type
    /\ obj.dist_type \in {"normal", "categorical"} =>
          Required(obj.dist_type) \subseteq obj.attributes

\* sample_ on a built sampler (lines 61-62, 215-216, 250-251: z, then y). An
\* attribute that was never set ends the call with AttributeError.
DistSample(s) ==
    /\ dist_pc = <<s, "sample">>
    /\ nsample < MaxSamples
    /\ nsample' = nsample + 1
    /\ IF Readable(dobj[s])
       THEN LET r == sample_(dobj[s].dist_type, dobj[s].data, dist_rng,
                             IF "num_categories" \in dobj[s].attributes
                             THEN dobj[s].dist_kwargs.num_categories ELSE 1)
            IN /\ dobj' = [dobj EXCEPT ![s].data = r.val]
               /\ dist_rng' = r.rng
               /\ sampled_types' = sampled_types \cup {dobj[s].dist_type}
               /\ dist_err' = dist_err
               /\ dist_pc' = <<IF s = "z" THEN "y" ELSE "z", "sample">>
       ELSE /\ dist_err' = "AttributeError"
            /\ dist_pc' = <<s, "failed">>
            /\ UNCHANGED <<dobj, dist_rng, sampled_types>>
    /\ UNCHANGED dist_cfg
    /\ UNCHANGED notDist

\* No sampler is under construction.
DistIdle ==
    /\ dist_cfg = [zkind |-> "normal", ykind |-> "comparison", num_classes |-> 2]
    /\ dist_pc = <<"z", "off">>
    /\ dobj = [s \in Samplers |-> Distribution(0)]
    /\ dist_rng = 0
    /\ dist_err = ""
    /\ sampled_types = {}
    /\ nsample = 0

\* init_random_samples is about to run with the given kinds.
DistStart(zkind, ykind, nc, sd) ==
    /\ dist_cfg = [zkind |-> zkind, ykind |-> ykind, num_classes |-> nc]
    /\ dist_pc = <<"z", "new">>
    /\ dobj = [s \in Samplers |-> Distribution(0)]
    /\ dist_rng = sd
    /\ dist_err = ""
    /\ sampled_types = {}
    /\ nsample = 0

\* ------------------------------------------------------------------ CCBN
RecognizedStyles == {"bn", "in", "gn", "nonorm"}

StylesTried == RecognizedStyles \cup {"ln", "batch"}

\* The attributes and buffers CCBN.__init__ sets (lines 175-188).
CCBNAttributes ==
    {"output_size", "input_size", "gain", "bias", "eps", "momentum", "cross_replica",
     "norm_style", "stored_mean", "stored_var", "training"}

\* CCBN.__init__ (lines 172-188): the style is stored as given.
CCBN(norm_style) ==
    [norm_style |-> norm_style, training |-> TRUE, stat_updates |-> 0]

\* The class-conditional gain and bias (lines 193-194); the embedding tables
\* are fixed: gain(y) = y + 1, bias(y) = 2 * y.
GainBias(yv) == [gain |-> 1 + (yv + 1), bias |-> 2 * yv]

\* The result of a forward call: how it ended, what it returned, the module after it.
Returned(m, normalized, yv) ==
    [status |-> "ok",
     out |-> [normalized |-> normalized, gain |-> GainBias(yv).gain,
              bias |-> GainBias(yv).bias],
     module |-> m]

Raised(m, exception) ==
    [status |-> exception, out |-> [normalized |-> <<>>, gain |-> 0, bias |-> 0],
     module |-> m]

\* In training mode batch and instance normalisation use the statistics of
\* the input and update the stored ones; otherwise they use the stored ones.
WithStats(m, kind, x) ==
    [m |-> IF m.training THEN [m EXCEPT !.stat_updates = @ + 1] ELSE m,
     normalized |-> <<kind, x, IF m.training THEN "input" ELSE "stored">>]

\* The style strings, character by character.
Chars ==
    [style \in StylesTried |->
        CASE style = "bn" -> <<"b", "n">>
          [] style = "in" -> <<"i", "n">>
          [] style = "gn" -> <<"g", "n">>
          [] style = "nonorm" -> <<"n", "o", "n", "o", "r", "m">>
          [] style = "ln" -> <<"l", "n">>
          [] style = "batch" -> <<"b", "a", "t", "c", "h">>]

\* sub in s, for Python strings.
Contains(s, sub) ==
    \E i \in 1..(Len(s) + 1) :
        /\ i + Len(sub) - 1 <= Len(s)
        /\ SubSeq(s, i, i + Len(sub) - 1) = sub

\* s.split('_')[-1]: what follows the last underscore, or all of s.
LastToken(s) ==
    LET cuts == {i \in 1..Len(s) : s[i] = "_"}
        last == IF cuts = {} THEN 0 ELSE CHOOSE i \in cuts : \A j \in cuts : j <= i
    IN SubSeq(s, last + 1, Len(s))

Digits == <<"0", "1", "2", "3", "4", "5", "6", "7", "8", "9">>

RECURSIVE ParseInt(_)
\* int(s) of a string of decimal digits; anything else is a ValueError (-1).
ParseInt(s) ==
    IF s = <<>> \/ \E i \in 1..Len(s) : \A d \in 1..10 : Digits[d] # s[i]
    THEN -1
    ELSE IF Len(s) = 1
    THEN (CHOOSE d \in 1..10 : Digits[d] = s[1]) - 1
    ELSE 10 * ParseInt(SubSeq(s, 1, Len(s) - 1)) + ParseInt(<<s[Len(s)]>>)

\* The channel count of the activations (x.shape[1], the output_size of the layer).
Channels == 8

\* group_norm (lines 131-142): the group count comes from the style string.
group_norm(x, norm_style) ==
    LET n == ParseInt(LastToken(norm_style))
        groups == IF Contains(norm_style, <<"c", "h">>)
                  THEN (IF (Channels \div n) > 1 THEN Channels \div n ELSE 1)
                  ELSE IF Contains(norm_style, <<"g", "r", "p">>) THEN n
                  ELSE 16
        parsed == Contains(norm_style, <<"c", "h">>) \/ Contains(norm_style, <<"g", "r", "p">>)
    IN IF parsed /\ n = -1 THEN [raised |-> "ValueError", out |-> <<>>]
       ELSE IF parsed /\ Contains(norm_style, <<"c", "h">>) /\ n = 0
       THEN [raised |-> "ZeroDivisionError", out |-> <<>>]
       ELSE [raised |-> "", out |-> <<"group_norm", x, groups>>]

\* The 'gn' branch once self.normstyle has been found (line 204).
GroupNormBranch(m, x, yv) ==
    LET r == group_norm(x, Chars[m.norm_style])
    IN IF r.raised = "" THEN Returned(m, r.out, yv) ELSE Raised(m, r.raised)

\* A forward whose last branch passes x through instead of raising.
ccbn_forward_no_raise(m, x, yv) ==
    IF m.norm_style = "bn"
    THEN Returned(WithStats(m, "batch_norm", x).m,
                  WithStats(m, "batch_norm", x).normalized, yv)
    ELSE IF m.norm_style = "in"
    THEN Returned(WithStats(m, "instance_norm", x).m,
                  WithStats(m, "instance_norm", x).normalized, yv)
    ELSE IF m.norm_style = "gn"
    THEN IF "normstyle" \in CCBNAttributes
         THEN GroupNormBranch(m, x, yv)
         ELSE Raised(m, "AttributeError")
    ELSE Returned(m, <<"identity", x, "none">>, yv)

\* CCBN.forward (lines 190-211). The 'gn' branch reads self.normstyle, an
\* attribute the object does not have.
ccbn_forward(m, x, yv) ==
    IF m.norm_style = "bn"
    THEN Returned(WithStats(m, "batch_norm", x).m,
                  WithStats(m, "batch_norm", x).normalized, yv)
    ELSE IF m.norm_style = "in"
    THEN Returned(WithStats(m, "instance_norm", x).m,
                  WithStats(m, "instance_norm", x).normalized, yv)
    ELSE IF m.norm_style = "gn"
    THEN IF "normstyle" \in CCBNAttributes
         THEN GroupNormBranch(m, x, yv)
         ELSE Raised(m, "AttributeError")
    ELSE IF m.norm_style = "nonorm"
    THEN Returned(m, <<"identity", x, "none">>, yv)
    ELSE Raised(m, "ValueError")

NoOutcome == [status |-> "none", out |-> [normalized |-> <<>>, gain |-> 0, bias |-> 0]]

\* CCBN(...) is constructed with some style string.
CCBNConstruct ==
    /\ ccbn_pc = "new"
    /\ \E style \in StylesTried : ccbn' = CCBN(style)
    /\ ccbn_pc' = "built"
    /\ UNCHANGED <<ccbn_out, nforward>>
    /\ UNCHANGED notCCBN

\* module.train() / module.eval().
CCBNSetMode ==
    /\ ccbn_pc = "built"
    /\ \E mode \in BOOLEAN :
          /\ mode # ccbn.training
          /\ ccbn' = [ccbn EXCEPT !.training = mode]
    /\ UNCHANGED <<ccbn_pc, ccbn_out, nforward>>
    /\ UNCHANGED notCCBN

\* module(x, y).
CCBNForward ==
    /\ ccbn_pc = "built"
    /\ nforward < MaxForwards
    /\ \E x \in XVals, yv \in 0..1 :
          LET r == ccbn_forward(ccbn, x, yv)
          IN /\ ccbn' = r.module
             /\ ccbn_out' = [status |-> r.status, out |-> r.out]
    /\ nforward' = nforward + 1
    /\ UNCHANGED ccbn_pc
    /\ UNCHANGED notCCBN

\* No CCBN has been made.
CCBNIdle ==
    /\ ccbn_pc = "new"
    /\ ccbn = CCBN("bn")
    /\ ccbn_out = NoOutcome
    /\ nforward = 0

\* ------------------------------------------- spectrally-normalized layers
SNKinds == {"SNConv2d", "SNLinear", "SNEmbedding"}

Weights == {2, 3}

\* Tensors of a layer are integers modulo RngMod.
normalize(x) == x % RngMod

\* proj (lines 10-11): the component of x along y.
proj(x, yv) == (x * yv) % RngMod

RECURSIVE gram_schmidt(_, _)
\* gram_schmidt (lines 16-19): x less its components along each of ys.
gram_schmidt(x, ys) ==
    IF ys = <<>> THEN x ELSE gram_schmidt(x - proj(x, Head(ys)), Tail(ys))

RECURSIVE PowerLoop(_, _, _, _, _, _, _)
\* The loop of power_iteration from its i-th buffer on (lines 27-44): u_[i] is
\* overwritten in place only when update is set.
PowerLoop(W, u_, update, i, us, vs, svs) ==
    IF i > Len(u_) THEN [svs |-> svs, us |-> us, vs |-> vs, u_ |-> u_]
    ELSE LET v == normalize(gram_schmidt(u_[i] * W, vs))
             u == normalize(gram_schmidt(v * W, us))
         IN PowerLoop(W, IF update THEN [u_ EXCEPT ![i] = u] ELSE u_, update, i + 1,
                      Append(us, u), Append(vs, v), Append(svs, (v * W * u) % RngMod))

\* A power_iteration that writes the buffers whatever the update flag says.
power_iteration_always_update(W, u_, update) ==
    PowerLoop(W, u_, TRUE, 1, <<>>, <<>>, <<>>)

\* power_iteration (lines 24-46).
power_iteration(W, u_, update) ==
    PowerLoop(W, u_, update, 1, <<>>, <<>>, <<>>)

RECURSIVE randn(_, _)
\* n successive draws of torch.randn from generator state r.
randn(r, n) == IF n = 0 THEN <<>> ELSE <<NextRng(r)>> \o randn(NextRng(r), n - 1)

\* SN.__init__ (lines 52-61) under the constructor of one of the three layer
\* classes (lines 93-125): one u and one sv buffer per singular value; a
\* module starts in training mode.
SN(kind, num_svs, num_itrs, weight, r) ==
    [kind |-> kind, num_svs |-> num_svs, num_itrs |-> num_itrs, training |-> TRUE,
     weight |-> weight, u |-> randn(r, num_svs), sv |-> [i \in 1..num_svs |-> 1]]

RECURSIVE PowerIterations(_, _, _)
\* The loop of W_ (lines 80-81): every round reads the buffers again.
PowerIterations(layer, k, last) ==
    IF k = 0 THEN [layer |-> layer, svs |-> last]
    ELSE LET r == power_iteration(layer.weight, layer.u, layer.training)
         IN PowerIterations([layer EXCEPT !.u = r.u_], k - 1, r.svs)

\* SN.W_ (lines 75-87): the weight over the first singular value; the sv
\* buffers are written in training mode only.
W_(layer) ==
    LET r == PowerIterations(layer, layer.num_itrs, <<>>)
    IN [layer |-> IF layer.training THEN [r.layer EXCEPT !.sv = r.svs] ELSE r.layer,
        out |-> <<layer.weight, r.svs[1]>>]

\* forward of the three classes (lines 100-102, 112-113, 124-125).
SNApply(kind, x, W) ==
    <<CASE kind = "SNConv2d" -> "conv2d"
        [] kind = "SNLinear" -> "linear"
        [] kind = "SNEmbedding" -> "embedding", x, W>>

Buffers(layer) == [training |-> layer.training, u |-> layer.u, sv |-> layer.sv]

\* layer(x).
SNForward ==
    /\ nsn < MaxSNForwards
    /\ \E x \in XVals :
          LET r == W_(sn)
          IN /\ sn' = r.layer
             /\ sn_out' = SNApply(sn.kind, x, r.out)
    /\ sn_prev' = Buffers(sn)
    /\ nsn' = nsn + 1
    /\ UNCHANGED notSN

\* layer.train() / layer.eval().
SNSetMode ==
    /\ \E mode \in BOOLEAN :
          /\ mode # sn.training
          /\ sn' = [sn EXCEPT !.training = mode]
    /\ UNCHANGED <<sn_prev, sn_out, nsn>>
    /\ UNCHANGED notSN

\* An optimizer step on the layer's weight.
SNOptimStep ==
    /\ \E w \in Weights :
          /\ w # sn.weight
          /\ sn' = [sn EXCEPT !.weight = w]
    /\ UNCHANGED <<sn_prev, sn_out, nsn>>
    /\ UNCHANGED notSN

\* A layer just constructed.
SNStart(kind, num_svs, num_itrs, weight, r) ==
    /\ sn = SN(kind, num_svs, num_itrs, weight, r)
    /\ sn_prev = [training |-> TRUE, u |-> <<>>, sv |-> <<>>]
    /\ sn_out = <<>>
    /\ nsn = 0

SNIdle == SNStart("SNLinear", 1, 1, 2, 0)

\* ------------------------------------------------------------ checkpoints
\* epoch=None is the empty tag, epoch=e the tag <<e>>.
None == <<>>

EpochTags == {0, 1}

Tags == {None} \cup {<<e>> : e \in EpochTags}

Paths == {"run"}

Nets == {"generator", "discriminator", "encoder", "decoder"}

RECURSIVE Str(_)
\* str(n) of a natural number, as '{}'.format(n) writes it.
Str(n) == IF n < 10 THEN <<Digits[n + 1]>> ELSE Str(n \div 10) \o <<Digits[(n % 10) + 1]>>

\* '{}/<stem>.pth'.format(path) and '{}/<stem>_{}.pth'.format(path, epoch),
\* character by character where the arguments go.
Format1(path, stem) == <<path, "/", stem, ".pth">>

Format2(path, stem, epoch) == <<path, "/", stem, "_">> \o Str(epoch[1]) \o <<".pth">>

\* torch.save(state, name): the file is created or replaced.
torch_save(fs, state, name) == {f \in fs : f[1] # name} \cup {<<name, state>>}

Exists(fs, name) == \E f \in fs : f[1] = name

\* torch.load(name) of an existing file.
torch_load(fs, name) == (CHOOSE f \in fs : f[1] = name)[2]

\* A save_checkpoint that writes both networks under the generator's name.
save_checkpoint_one_file(fs, gen, dis, path, epoch) ==
    IF epoch = None
    THEN torch_save(torch_save(fs, gen, Format1(path, "generator")),
                    dis, Format1(path, "generator"))
    ELSE torch_save(torch_save(fs, gen, Format2(path, "generator", epoch)),
                    dis, Format2(path, "generator", epoch))

\* save_checkpoint (lines 271-277).
save_checkpoint(fs, gen, dis, path, epoch) ==
    IF epoch = None
    THEN torch_save(torch_save(fs, gen, Format1(path, "generator")),
                    dis, Format1(path, "discriminator"))
    ELSE torch_save(torch_save(fs, gen, Format2(path, "generator", epoch)),
                    dis, Format2(path, "discriminator", epoch))

\* save_ae_checkpoint (lines 288-294).
save_ae_checkpoint(fs, enc, dec, path, epoch) ==
    IF epoch = None
    THEN torch_save(torch_save(fs, enc, Format1(path, "encoder")),
                    dec, Format1(path, "decoder"))
    ELSE torch_save(torch_save(fs, enc, Format2(path, "encoder", epoch)),
                    dec, Format2(path, "decoder", epoch))

\* Two load_state_dict(torch.load(name)) in a row: a missing file ends the call
\* with FileNotFoundError, after the first network was loaded if its file was there.
LoadBoth(fs, first, second, name1, name2) ==
    IF ~Exists(fs, name1)
    THEN [first |-> first, second |-> second, err |-> "FileNotFoundError"]
    ELSE IF ~Exists(fs, name2)
    THEN [first |-> torch_load(fs, name1), second |-> second, err |-> "FileNotFoundError"]
    ELSE [first |-> torch_load(fs, name1), second |-> torch_load(fs, name2), err |-> ""]

\* load_checkpoint (lines 279-285).
load_checkpoint(fs, gen, dis, path, epoch) ==
    IF epoch = None
    THEN LoadBoth(fs, gen, dis, Format1(path, "generator"), Format1(path, "discriminator"))
    ELSE LoadBoth(fs, gen, dis, Format2(path, "generator", epoch),
                  Format2(path, "discriminator", epoch))

\* load_ae_checkpoint (lines 296-302).
load_ae_checkpoint(fs, enc, dec, path, epoch) ==
    IF epoch = None
    THEN LoadBoth(fs, enc, dec, Format1(path, "encoder"), Format1(path, "decoder"))
    ELSE LoadBoth(fs, enc, dec, Format2(path, "encoder", epoch),
                  Format2(path, "decoder", epoch))

\* The state a snapshot of a network under a tag was last saved from (-1: never).
Saved(e, net1, state1, net2, state2, epoch) ==
    [e EXCEPT ![<<net1, epoch>>] = state1, ![<<net2, epoch>>] = state2]

\* self.save_checkpoint(path, epoch) between two train_step calls.
SaveCheckpoint ==
    /\ pc[1] = "idle"
    /\ nio < MaxIO
    /\ \E path \in Paths, epoch \in Tags :
          /\ files' = save_checkpoint(files, genP[1], disP[1], path, epoch)
          /\ expect' = Saved(expect, "generator", genP[1], "discriminator", disP[1], epoch)
          /\ io' = [op |-> "save_checkpoint", epoch |-> epoch, err |-> ""]
    /\ nio' = nio + 1
    /\ UNCHANGED <<pc, calls, cfgVars, reqVars, gradVars, parVars, aeVars, smpVars,
                   argVars, discriminator_fake, disLocals, genLocals, logVars, outputs,
                   envVars, distVars, ccbnVars, snVars, trainVars>>

\* self.load_checkpoint(path, epoch) between two train_step calls.
LoadCheckpoint ==
    /\ pc[1] = "idle"
    /\ nio < MaxIO
    /\ \E path \in Paths, epoch \in Tags :
          LET r == load_checkpoint(files, genP[1], disP[1], path, epoch)
          IN /\ genP' = Upd(genP, 1, r.first)
             /\ disP' = Upd(disP, 1, r.second)
             /\ io' = [op |-> "load_checkpoint", epoch |-> epoch, err |-> r.err]
    /\ nio' = nio + 1
    /\ UNCHANGED <<pc, calls, cfgVars, reqVars, gradVars, aeVars, smpVars, argVars,
                   discriminator_fake, disLocals, genLocals, logVars, outputs, envVars,
                   distVars, ccbnVars, snVars, files, expect, trainVars>>

\* self.save_ae_checkpoint(path, epoch).
SaveAECheckpoint ==
    /\ pc[1] = "idle"
    /\ nio < MaxIO
    /\ \E path \in Paths, epoch \in Tags :
          /\ files' = save_ae_checkpoint(files, encP[1], decP[1], path, epoch)
          /\ expect' = Saved(expect, "encoder", encP[1], "decoder", decP[1], epoch)
          /\ io' = [op |-> "save_ae_checkpoint", epoch |-> epoch, err |-> ""]
    /\ nio' = nio + 1
    /\ UNCHANGED <<pc, calls, cfgVars, reqVars, gradVars, parVars, aeVars, smpVars,
                   argVars, discriminator_fake, disLocals, genLocals, logVars, outputs,
                   envVars, distVars, ccbnVars, snVars, trainVars>>

\* self.load_ae_checkpoint(path, epoch).
LoadAECheckpoint ==
    /\ pc[1] = "idle"
    /\ nio < MaxIO
    /\ \E path \in Paths, epoch \in Tags :
          LET r == load_ae_checkpoint(files, encP[1], decP[1], path, epoch)
          IN /\ encP' = Upd(encP, 1, r.first)
             /\ decP' = Upd(decP, 1, r.second)
             /\ io' = [op |-> "load_ae_checkpoint", epoch |-> epoch, err |-> r.err]
    /\ nio' = nio + 1
    /\ UNCHANGED <<pc, calls, cfgVars, reqVars, gradVars, parVars, encReq, decReq,
                   encGrad, decGrad, smpVars, argVars, discriminator_fake, disLocals,
                   genLocals, logVars, outputs, envVars, distVars, ccbnVars, snVars,
                   files, expect, trainVars>>

\* An empty checkpoint directory.
NoFiles ==
    /\ files = {}
    /\ expect = [k \in Nets \X Tags |-> -1]
    /\ io = [op |-> "none", epoch |-> None, err |-> ""]
    /\ nio = 0

\* ------------------------------------------------------------ LCGAN.train
FirstEpoch == 300

CkptInterval == 25

SavePath == "run"

\* module.train() / module.eval() on one network.
SetMode(flags, net, mode) == [flags EXCEPT ![net] = mode]

\* line 158: the next epoch of range(300, epochs + 300) begins, or the loop ends.
TrainEpoch ==
    /\ tr_pc = "epoch"
    /\ IF tr_epoch < tr_epochs + FirstEpoch
       THEN /\ accuracy_iterations' = 0
            /\ tr_iter' = 0
            /\ tr_pc' = "batch"
       ELSE /\ tr_pc' = "done"
            /\ UNCHANGED <<accuracy_iterations, tr_iter>>
    /\ UNCHANGED <<pc, calls, cfgVars, reqVars, gradVars, parVars, aeVars, smpVars,
                   argVars, discriminator_fake, disLocals, genLocals, logVars, outputs,
                   envVars, distVars, ccbnVars, snVars, ckptVars, tr_epochs, tr_len,
                   tr_epoch, training, requests, step_modes>>

\* A train loop that puts the networks in training mode once, before the
\* first batch of the first epoch.
TrainBatch_train_mode_once ==
    /\ tr_pc = "batch"
    /\ tr_iter < tr_len
    /\ training' = IF tr_epoch = FirstEpoch /\ tr_iter = 0
                   THEN SetMode(SetMode(training, "generator", TRUE), "discriminator", TRUE)
                   ELSE training
    /\ step_modes' = Append(step_modes, [epoch |-> tr_epoch, iter |-> tr_iter,
                                         generator |-> training'["generator"],
                                         discriminator |-> training'["discriminator"]])
    /\ \E batch \in [1..1 -> XVals] :
          /\ train_step_enter(1, batch, tr_iter)
          /\ script' = [batch |-> batch, iter |-> tr_iter]
    /\ tr_pc' = "in_step"
    /\ UNCHANGED diverged
    /\ UNCHANGED <<tr_epochs, tr_len, tr_epoch, tr_iter, accuracy_iterations, requests>>

\* lines 163-168: the loader yields a batch; generator and discriminator are
\* put in training mode and train_step is called with the batch and its index.
TrainBatch ==
    /\ tr_pc = "batch"
    /\ tr_iter < tr_len
    /\ training' = SetMode(SetMode(training, "generator", TRUE), "discriminator", TRUE)
    /\ step_modes' = Append(step_modes, [epoch |-> tr_epoch, iter |-> tr_iter,
                                         generator |-> training'["generator"],
                                         discriminator |-> training'["discriminator"]])
    /\ \E batch \in [1..1 -> XVals] :
          /\ train_step_enter(1, batch, tr_iter)
          /\ script' = [batch |-> batch, iter |-> tr_iter]
    /\ tr_pc' = "in_step"
    /\ UNCHANGED diverged
    /\ UNCHANGED <<tr_epochs, tr_len, tr_epoch, tr_iter, accuracy_iterations, requests>>

\* lines 170-176: train_step has returned; its metrics are accumulated.
TrainStepDone ==
    /\ tr_pc = "in_step"
    /\ pc[1] = "idle"
    /\ accuracy_iterations' = accuracy_iterations + 1
    /\ tr_iter' = tr_iter + 1
    /\ tr_pc' = "batch"
    /\ UNCHANGED <<pc, calls, cfgVars, reqVars, gradVars, parVars, aeVars, smpVars,
                   argVars, discriminator_fake, disLocals, genLocals, logVars, outputs,
                   envVars, distVars, ccbnVars, snVars, ckptVars, tr_epochs, tr_len,
                   tr_epoch, training, requests, step_modes>>

\* lines 178-182: the loader is exhausted; the epoch's mean metrics go to the
\* writer, one scalar per metric accumulated.
TrainLog ==
    /\ tr_pc = "batch"
    /\ tr_iter = tr_len
    /\ requests' = IF accuracy_iterations > 0
                   THEN Append(requests, <<"add_scalar", tr_epoch>>) ELSE requests
    /\ tr_pc' = "save_images"
    /\ UNCHANGED <<pc, calls, cfgVars, reqVars, gradVars, parVars, aeVars, smpVars,
                   argVars, discriminator_fake, disLocals, genLocals, logVars, outputs,
                   envVars, distVars, ccbnVars, snVars, ckptVars, tr_epochs, tr_len,
                   tr_epoch, tr_iter, accuracy_iterations, training, step_modes>>

\* line 183 and save_images (lines 125-133): generator and decoder are put in
\* evaluation mode and the fixed-noise sample is rendered.
TrainSaveImages ==
    /\ tr_pc = "save_images"
    /\ training' = SetMode(SetMode(training, "generator", FALSE), "decoder", FALSE)
    /\ requests' = Append(requests, <<"save_images", tr_epoch>>)
    /\ tr_pc' = "checkpoint"
    /\ UNCHANGED <<pc, calls, cfgVars, reqVars, gradVars, parVars, aeVars, smpVars,
                   argVars, discriminator_fake, disLocals, genLocals, logVars, outputs,
                   envVars, distVars, ccbnVars, snVars, ckptVars, tr_epochs, tr_len,
                   tr_epoch, tr_iter, accuracy_iterations, step_modes>>

\* A train loop that saves a checkpoint at the end of every epoch.
TrainCheckpoint_every_epoch ==
    /\ tr_pc = "checkpoint"
    /\ files' = save_checkpoint(files, genP[1], disP[1], SavePath, <<tr_epoch>>)
    /\ requests' = Append(requests, <<"save_checkpoint", tr_epoch>>)
    /\ tr_epoch' = tr_epoch + 1
    /\ tr_pc' = "epoch"
    /\ UNCHANGED <<pc, calls, cfgVars, reqVars, gradVars, parVars, aeVars, smpVars,
                   argVars, discriminator_fake, disLocals, genLocals, logVars, outputs,
                   envVars, distVars, ccbnVars, snVars, expect, io, nio, tr_epochs,
                   tr_len, tr_iter, accuracy_iterations, training, step_modes>>

\* lines 185-187: a checkpoint tagged with the epoch when the epoch is a
\* multiple of 25; then the next epoch.
TrainCheckpoint ==
    /\ tr_pc = "checkpoint"
    /\ IF tr_epoch % CkptInterval = 0
       THEN /\ files' = save_checkpoint(files, genP[1], disP[1], SavePath, <<tr_epoch>>)
            /\ requests' = Append(requests, <<"save_checkpoint", tr_epoch>>)
       ELSE UNCHANGED <<files, requests>>
    /\ tr_epoch' = tr_epoch + 1
    /\ tr_pc' = "epoch"
    /\ UNCHANGED <<pc, calls, cfgVars, reqVars, gradVars, parVars, aeVars, smpVars,
                   argVars, discriminator_fake, disLocals, genLocals, logVars, outputs,
                   envVars, distVars, ccbnVars, snVars, expect, io, nio, tr_epochs,
                   tr_len, tr_iter, accuracy_iterations, training, step_modes>>

ModuleNames == {"generator", "discriminator", "encoder", "decoder"}

\* train(data_loader, epochs) is entered on a trainer whose modules are as
\* constructed (a module starts in training mode).
TrainStart(epochs, len) ==
    /\ tr_pc = "epoch"
    /\ tr_epochs = epochs
    /\ tr_len = len
    /\ tr_epoch = FirstEpoch
    /\ tr_iter = 0
    /\ accuracy_iterations = 0
    /\ training = [m \in ModuleNames |-> TRUE]
    /\ requests = <<>>
    /\ step_modes = <<>>

\* train is not running.
TrainOff ==
    /\ tr_pc = "off"
    /\ tr_epochs = 0
    /\ tr_len = 0
    /\ tr_epoch = FirstEpoch
    /\ tr_iter = 0
    /\ accuracy_iterations = 0
    /\ training = [m \in ModuleNames |-> TRUE]
    /\ requests = <<>>
    /\ step_modes = <<>>

\* ------------------------------------------------------------ the callers
Batches == UNION {[1..n -> XVals] : n \in 1..MaxBatch}

\* The batch with every sample replaced by the other value.
Flip(batch) == [i \in 1..Len(batch) |-> 1 - batch[i]]

\* A caller runs train_step on trainer 1.
Call ==
    \E batch \in Batches, it \in 0..MaxIter :
        /\ train_step_enter(1, batch, it)
        /\ script' = [batch |-> batch, iter |-> it]
        /\ UNCHANGED diverged
        /\ UNCHANGED trainVars

\* Two runs side by side, driven as the loop of LCGAN.train drives one
\* (lines 163-168: iter counts the batches). Run 1 is called first ...
PairCall1 ==
    /\ pc[2] = "idle"
    /\ calls[2] = calls[1]
    /\ \E batch \in Batches :
        /\ train_step_enter(1, batch, calls[1])
        /\ script' = [batch |-> batch, iter |-> calls[1]]
        /\ UNCHANGED diverged
        /\ UNCHANGED trainVars

\* ... and run 2 is then called with the same iter and with the same batch or
\* with the flipped one.
PairCall2 ==
    /\ pc[1] = "idle"
    /\ calls[2] < calls[1]
    /\ \E batch \in {script.batch, Flip(script.batch)} :
        /\ train_step_enter(2, batch, script.iter)
        /\ diverged' = (diverged \/ batch # script.batch)
        /\ UNCHANGED script
        /\ UNCHANGED trainVars

\* --------------------------------------------------------------- the runs
Seeds == {0, 1}

ClassCounts == {2, 3}

\* The state after LCGAN.__init__ (lines 24-72) of both runs: same
\* configuration, parameters as initialised, z filled by torch.randn, y zero.
InitTrainer(tg, nc, sd) ==
    /\ pc = [t \in Trainers |-> "idle"]
    /\ toggle_grads = [t \in Trainers |-> tg]
    /\ num_classes = [t \in Trainers |-> nc]
    /\ seed = sd
    /\ rng = sd
    /\ calls = [t \in Trainers |-> 0]
    /\ iter = [t \in Trainers |-> 0]
    /\ inputs = [t \in Trainers |-> <<>>]
    /\ slices = [t \in Trainers |-> <<>>]
    /\ nslices = [t \in Trainers |-> 0]
    /\ slice_no = [t \in Trainers |-> 0]
    /\ genP = [t \in Trainers |-> 0]
    /\ disP = [t \in Trainers |-> 0]
    /\ genReq = [t \in Trainers |-> TRUE]
    /\ disReq = [t \in Trainers |-> TRUE]
    /\ genGrad = [t \in Trainers |-> {}]
    /\ disGrad = [t \in Trainers |-> {}]
    /\ encP = [t \in Trainers |-> 0]
    /\ decP = [t \in Trainers |-> 0]
    /\ encReq = [t \in Trainers |-> FALSE]
    /\ decReq = [t \in Trainers |-> FALSE]
    /\ encGrad = [t \in Trainers |-> {}]
    /\ decGrad = [t \in Trainers |-> {}]
    /\ z = sd
    /\ y = [t \in Trainers |-> 0]
    /\ discriminator_fake = [t \in Trainers |-> <<>>]
    /\ discriminator_real = [t \in Trainers |-> <<>>]
    /\ dis_loss = [t \in Trainers |-> <<Zero, Zero>>]
    /\ totals = [t \in Trainers |-> NoTotals]
    /\ gen_loss_args = [t \in Trainers |-> <<>>]
    /\ generator_loss = [t \in Trainers |-> Zero]
    /\ generator_loss_total = [t \in Trainers |-> Zero]
    /\ ema = [t \in Trainers |-> <<>>]
    /\ outputs = [t \in Trainers |-> NoOutputs]
    /\ trace = [t \in Trainers |-> <<>>]
    /\ samples = [t \in Trainers |-> <<>>]
    /\ slice_log = [t \in Trainers |-> <<>>]
    /\ script = [batch |-> <<>>, iter |-> 0]
    /\ diverged = FALSE

Init ==
    /\ \E tg \in BOOLEAN, nc \in ClassCounts, sd \in Seeds :
          InitTrainer(tg, nc, [t \in Trainers |-> sd])
    /\ DistIdle
    /\ CCBNIdle
    /\ SNIdle
    /\ NoFiles
    /\ TrainOff

Next == Call \/ Step(1)

Spec == Init /\ [][Next]_vars

\* Two runs, each from a seed of its own.
InitPair ==
    /\ \E tg \in BOOLEAN, nc \in ClassCounts, sd \in [Trainers -> Seeds] :
          InitTrainer(tg, nc, sd)
    /\ DistIdle
    /\ CCBNIdle
    /\ SNIdle
    /\ NoFiles
    /\ TrainOff

NextPair == PairCall1 \/ PairCall2 \/ (\E t \in Trainers : Step(t))

SpecPair == InitPair /\ [][NextPair]_vars

\* The construction of the two samplers, for every pair of kinds, and the
\* sample_ calls that follow it.
InitDist ==
    /\ InitTrainer(FALSE, 2, [t \in Trainers |-> 0])
    /\ CCBNIdle
    /\ SNIdle
    /\ NoFiles
    /\ TrainOff
    /\ \E zkind \in KindsTried, ykind \in KindsTried, nc \in ClassCounts, sd \in Seeds :
          DistStart(zkind, ykind, nc, sd)

NextDist == \E s \in Samplers : DistNew(s) \/ DistInit(s) \/ DistTo(s) \/ DistSample(s)

SpecDist == InitDist /\ [][NextDist]_vars

\* One CCBN, built with any style and then called.
InitCCBN ==
    /\ InitTrainer(FALSE, 2, [t \in Trainers |-> 0])
    /\ DistIdle
    /\ CCBNIdle
    /\ SNIdle
    /\ NoFiles
    /\ TrainOff

NextCCBN == CCBNConstruct \/ CCBNSetMode \/ CCBNForward

SpecCCBN == InitCCBN /\ [][NextCCBN]_vars

\* One spectrally-normalized layer of any of the three classes: forward calls,
\* mode switches and weight updates in any order.
InitSN ==
    /\ InitTrainer(FALSE, 2, [t \in Trainers |-> 0])
    /\ DistIdle
    /\ CCBNIdle
    /\ NoFiles
    /\ TrainOff
    /\ \E kind \in SNKinds, num_svs \in 1..MaxSvs, num_itrs \in 1..MaxItrs,
          w \in Weights, sd \in Seeds :
          SNStart(kind, num_svs, num_itrs, w, sd)

NextSN == SNForward \/ SNSetMode \/ SNOptimStep

SpecSN == InitSN /\ [][NextSN]_vars

\* One trainer whose caller saves and loads checkpoints between train_step
\* calls; the autoencoder starts from pretrained parameters of its own.
InitCkpt ==
    /\ InitTrainer(FALSE, 2, [t \in Trainers |-> 0])
    /\ DistIdle
    /\ CCBNIdle
    /\ SNIdle
    /\ NoFiles
    /\ TrainOff

\* The training loop hands the next batch to train_step (lines 163-168); what
\* the samples are does not matter to a checkpoint, how many there are does.
CkptCall ==
    \E batch \in {b \in Batches : \A i \in 1..Len(b) : b[i] = 0} :
        /\ train_step_enter(1, batch, calls[1])
        /\ script' = [batch |-> batch, iter |-> calls[1]]
        /\ UNCHANGED diverged
        /\ UNCHANGED trainVars

NextCkpt ==
    \/ CkptCall \/ Step(1)
    \/ SaveCheckpoint \/ LoadCheckpoint \/ SaveAECheckpoint \/ LoadAECheckpoint

SpecCkpt == InitCkpt /\ [][NextCkpt]_vars

\* LCGAN.train(data_loader, epochs) on a freshly constructed trainer, for any
\* number of epochs and a loader of any length.
InitTrain ==
    /\ InitTrainer(FALSE, 2, [t \in Trainers |-> 0])
    /\ DistIdle
    /\ CCBNIdle
    /\ SNIdle
    /\ NoFiles
    /\ \E epochs \in 1..MaxEpochs, len \in 0..MaxLoader : TrainStart(epochs, len)

NextTrain ==
    \/ TrainEpoch \/ TrainBatch \/ Step(1) \/ TrainStepDone
    \/ TrainLog \/ TrainSaveImages \/ TrainCheckpoint

SpecTrain == InitTrain /\ [][NextTrain]_vars

\* ------------------------------------------------------------ properties
\* The number of slices torch.split makes of a batch.
Slices(batch) == (Len(batch) + GenBatch - 1) \div GenBatch

RECURSIVE Repeat(_, _)
Repeat(pattern, n) == IF n = 0 THEN <<>> ELSE pattern \o Repeat(pattern, n - 1)

Only(s, events) == SelectSeq(s, LAMBDA e : e \in events)

\* A train_step call on trainer t has returned and no other has started.
Finished(t) == pc[t] = "idle" /\ calls[t] > 0

InDisPhase(p) ==
    p \in {"zero_grads", "split", "toggle_dis", "loop", "d_sample_z", "d_sample_y",
           "d_forward", "d_loss", "d_backward", "d_totals", "d_step"}

InGenPhase(p) ==
    p \in {"toggle_gen", "g_zero_grad", "g_sample_z", "g_sample_y", "g_forward",
           "g_loss", "g_backward", "ema_update", "g_step", "return"}

\* C1: in a train_step call on a batch of k slices the discriminator optimizer
\* steps exactly k times, each time right after the backward pass of a slice and
\* as the last operation of that slice, and the generator optimizer steps
\* exactly once, after its backward pass and after every discriminator step.
C1_OptimizerSteps ==
    Finished(1) =>
        /\ Only(trace[1], {"dis.backward", "dis.step", "gen.backward", "gen.step"})
             = Repeat(<<"dis.backward", "dis.step">>, Slices(script.batch))
                 \o <<"gen.backward", "gen.step">>
        /\ \A i \in 1..Len(trace[1]) :
              trace[1][i] = "dis.step" =>
                  /\ trace[1][i - 1] = "dis.backward"
                  /\ trace[1][i + 1] = "z.sample_"

C1_Witness ==
    /\ Finished(1)
    /\ Slices(script.batch) = 2
    /\ Len(Only(trace[1], {"dis.step"})) = 2
    /\ Len(Only(trace[1], {"gen.step"})) = 1

\* C2: no step of the discriminator phase changes the generator's parameter
\* values, and no step of the generator phase changes the discriminator's.
C2_GradientIsolation ==
    [][ /\ InDisPhase(pc[1]) => genP'[1] = genP[1]
        /\ InGenPhase(pc[1]) => disP'[1] = disP[1] ]_vars

C2_Witness ==
    /\ pc[1] = "return"
    /\ calls[1] = 2
    /\ disP[1] > 2
    /\ genP[1] = 2

\* C3: with gradient toggling enabled, while a forward or backward pass of the
\* micro-batch loop runs only the discriminator's parameters require a
\* gradient, and while the generator phase's pass runs only the generator's do.
C3_OneNetworkAccumulates ==
    toggle_grads[1] =>
        /\ pc[1] \in {"d_forward", "d_loss", "d_backward"} =>
              (~genReq[1] /\ disReq[1])
        /\ pc[1] \in {"g_forward", "g_loss", "g_backward"} =>
              (genReq[1] /\ ~disReq[1])

C3_Witness ==
    /\ toggle_grads[1]
    /\ calls[1] = 2
    /\ pc[1] = "d_backward"
    /\ ~genReq[1]
    /\ disReq[1]

C5_GenLossInputsIndependent ==
    ( /\ Finished(1) /\ Finished(2)
      /\ calls[1] = 1 /\ calls[2] = 1
      /\ gen_loss_args[1][1] = gen_loss_args[2][1] )
    => gen_loss_args[1] = gen_loss_args[2]

\* C6: a train_step call updates the tracker exactly once, after its generator
\* loss is known, with that loss and with the iter argument of the call.
C6_EmaUpdatedOnce ==
    /\ Len(ema[1]) <= 1
    /\ (InDisPhase(pc[1]) \/ pc[1] \in {"toggle_gen", "g_zero_grad", "g_sample_z",
           "g_sample_y", "g_forward", "g_loss", "g_backward", "ema_update"})
          => ema[1] = <<>>
    /\ Finished(1) =>
          ema[1] = << [cur |-> outputs[1].gen_loss, mode |-> "generator_loss",
                       itr |-> script.iter] >>

C6_Witness ==
    /\ Finished(1)
    /\ calls[1] = 2
    /\ script.iter = 1
    /\ Len(ema[1]) = 1
    /\ ema[1][1].itr = 1

\* C7: a train_step call on a batch of k slices resamples z and then y before
\* each of its k + 1 forward passes and at no other time, so that every forward
\* pass is immediately preceded by a resampling of both.
C7_Resampling ==
    Finished(1) =>
        /\ Only(trace[1], {"z.sample_", "y.sample_", "gan.forward"})
             = Repeat(<<"z.sample_", "y.sample_", "gan.forward">>,
                      Slices(script.batch) + 1)
        /\ Len(samples[1]) = 2 * (Slices(script.batch) + 1)
        /\ \A i \in 1..Len(trace[1]) :
              trace[1][i] = "gan.forward" =>
                  /\ i > 2
                  /\ trace[1][i - 1] = "y.sample_"
                  /\ trace[1][i - 2] = "z.sample_"

C7_Witness ==
    /\ Finished(1)
    /\ Slices(script.batch) = 2
    /\ Len(Only(trace[1], {"z.sample_"})) = 3
    /\ Len(Only(trace[1], {"y.sample_"})) = 3

C9_UnrecognizedKindFatal ==
    /\ sampled_types \subseteq RecognizedKinds
    /\ dist_cfg.zkind \notin RecognizedKinds =>
          /\ dist_pc \in {<<"z", "new">>, <<"z", "init">>, <<"z", "failed">>}
          /\ dist_pc = <<"z", "failed">> => dist_err = "ValueError"
    /\ dist_cfg.ykind \notin RecognizedKinds =>
          /\ dist_pc[2] \notin {"to", "sample"} \/ dist_pc = <<"z", "to">>
          /\ dist_pc = <<"y", "failed">> => dist_err = "ValueError"
          /\ nsample = 0

C9_Witness ==
    /\ dist_cfg.zkind \in RecognizedKinds
    /\ dist_cfg.ykind \notin RecognizedKinds
    /\ dist_pc = <<"y", "failed">>
    /\ dist_err = "ValueError"
    /\ dobj["y"].dist_type = dist_cfg.ykind
    /\ sampled_types = {}

\* C10: a CCBN is built whatever its style string is; its forward ends with
\* ValueError exactly when the style is none of 'bn', 'in', 'gn', 'nonorm'.
C10_UnknownStyleRaisesAtForward ==
    /\ ccbn_pc = "built" => ccbn.norm_style \in StylesTried
    /\ ccbn_out.status # "none" =>
          (ccbn_out.status = "ValueError" <=> ccbn.norm_style \notin RecognizedStyles)

C10_Witness ==
    /\ ccbn_pc = "built"
    /\ ccbn.norm_style \notin RecognizedStyles
    /\ nforward = 2
    /\ ccbn_out.status = "ValueError"

\* C11: a forward call on a CCBN of the grouped-channel style returns the
\* group-normalized input (16 groups for the style 'gn', which carries no
\* token) with the class-conditional gain and bias.
C11_GroupedStyleReturns ==
    (ccbn_pc = "built" /\ ccbn.norm_style = "gn" /\ ccbn_out.status # "none") =>
        /\ ccbn_out.status = "ok"
        /\ \E x \in XVals, yv \in 0..1 :
              ccbn_out.out = Returned(ccbn, group_norm(x, Chars["gn"]).out, yv).out

\* C12: the u and sv buffers of a spectrally-normalized layer change only in
\* a forward pass made in training mode; a forward pass in evaluation mode,
\* a mode switch and a weight update leave every one of them as it was.
C12_BuffersChangeOnlyInTraining ==
    [][(sn'.u # sn.u \/ sn'.sv # sn.sv) => (sn.training /\ nsn' = nsn + 1)]_vars

C12_Witness ==
    /\ nsn >= 2
    /\ sn.num_svs = 2
    /\ sn.num_itrs = 2
    /\ ~sn_prev.training
    /\ sn_prev.u = sn.u
    /\ sn_prev.sv = sn.sv
    /\ sn.sv # [i \in 1..2 |-> 1]
    /\ sn_out # <<>>

\* C13: load_checkpoint with a tag gives the generator and the discriminator
\* the states the last save_checkpoint with that tag was made from, whatever
\* train steps, saves under other tags and autoencoder saves came in between
\* (and fails, changing nothing, if there was no such save); the same holds
\* of the autoencoder's snapshots.
C13_CheckpointRoundTrip ==
    [][(nio' = nio + 1 /\ io'.op \in {"load_checkpoint", "load_ae_checkpoint"}) =>
         LET nets == IF io'.op = "load_checkpoint"
                     THEN <<"generator", "discriminator">> ELSE <<"encoder", "decoder">>
             first == expect[<<nets[1], io'.epoch>>]
             second == expect[<<nets[2], io'.epoch>>]
             loaded == IF io'.op = "load_checkpoint"
                       THEN <<genP'[1], disP'[1]>> ELSE <<encP'[1], decP'[1]>>
         IN /\ io'.err = "" <=> first # -1
            /\ first # -1 => loaded = <<first, second>>
            /\ first = -1 => UNCHANGED <<parVars, aeVars>>
            /\ io'.op = "load_checkpoint" => UNCHANGED aeVars
            /\ io'.op = "load_ae_checkpoint" => UNCHANGED parVars
      ]_vars

C13_Witness ==
    /\ pc[1] = "idle"
    /\ calls[1] = 2
    /\ nio = 3
    /\ io = [op |-> "load_checkpoint", epoch |-> <<0>>, err |-> ""]
    /\ expect[<<"generator", None>>] = 0
    /\ expect[<<"generator", <<0>>>>] = 1
    /\ expect[<<"discriminator", <<0>>>>] = 2
    /\ genP[1] = 1
    /\ disP[1] = 2

\* How many times train has asked for `what` at the end of epoch e.
Asked(what, e) == Len(SelectSeq(requests, LAMBDA r : r = <<what, e>>))

\* The epochs train has completed.
EpochsDone == FirstEpoch..(tr_epoch - 1)

\* C14 as stated: at the end of an epoch the render and the checkpoint save
\* are each requested exactly when the epoch is a multiple of the interval.
C14_BothPeriodic ==
    \A e \in EpochsDone :
        /\ Asked("save_images", e) > 0 <=> e % CkptInterval = 0
        /\ Asked("save_checkpoint", e) > 0 <=> e % CkptInterval = 0

\* C14 amended: the render is requested once at the end of every epoch; the
\* checkpoint save is requested, once, exactly at the end of the epochs that
\* are multiples of 25.
C14_RenderAlwaysCheckpointPeriodic ==
    /\ \A e \in EpochsDone :
          /\ Asked("save_images", e) = 1
          /\ Asked("save_checkpoint", e) = (IF e % CkptInterval = 0 THEN 1 ELSE 0)
    /\ \A i \in 1..Len(requests) :
          /\ requests[i][2] <= tr_epoch
          /\ requests[i][2] = tr_epoch =>
                /\ tr_pc \in {"save_images", "checkpoint"}
                /\ requests[i][1] # "save_checkpoint"

C14_Witness ==
    /\ tr_pc = "done"
    /\ tr_epoch = FirstEpoch + CkptInterval + 2
    /\ Asked("save_checkpoint", FirstEpoch) = 1
    /\ Asked("save_checkpoint", FirstEpoch + CkptInterval) = 1
    /\ Asked("save_checkpoint", FirstEpoch + 1) = 0
    /\ Asked("save_images", FirstEpoch + 1) = 1
    /\ Exists(files, Format2(SavePath, "generator", <<FirstEpoch + CkptInterval>>))

\* C17: whenever train_step runs under train, generator and discriminator are
\* in training mode, in every epoch, save_images having put the generator in
\* evaluation mode at the end of the epoch before.
C17_TrainStepInTrainingMode ==
    /\ pc[1] # "idle" => (training["generator"] /\ training["discriminator"])
    /\ \A i \in 1..Len(step_modes) : step_modes[i].generator /\ step_modes[i].discriminator
    /\ Len(step_modes) = calls[1]

C17_Witness ==
    /\ calls[1] = 2
    /\ pc[1] = "g_step"
    /\ tr_epoch = FirstEpoch + 1
    /\ Asked("save_images", FirstEpoch) = 1
    /\ ~training["decoder"]
    /\ training["generator"]
    /\ step_modes[2] = [epoch |-> FirstEpoch + 1, iter |-> 0,
                        generator |-> TRUE, discriminator |-> TRUE]

\* C15: through any train_step calls, with or without gradient toggling, the
\* encoder's and the decoder's parameters keep the values they were built
\* with, never require a gradient and never receive one.
C15_AutoencoderFrozen ==
    \A t \in Trainers :
        /\ encP[t] = 0 /\ decP[t] = 0
        /\ ~encReq[t] /\ ~decReq[t]
        /\ encGrad[t] = {} /\ decGrad[t] = {}

C15_Witness ==
    /\ Finished(1)
    /\ calls[1] = 2
    /\ toggle_grads[1]
    /\ genReq[1] /\ ~disReq[1]
    /\ genP[1] = 2
    /\ disP[1] >= 3
    /\ encP[1] = 0 /\ ~encReq[1]

\* C16: when an optimizer is about to step, the gradient of its parameters is
\* the contribution of the one backward pass just made: that of the current
\* slice of the current call for the discriminator, that of the generator
\* phase of the current call for the generator.
C16_StepsUseFreshGradients ==
    \A t \in Trainers :
        /\ pc[t] = "d_step" => disGrad[t] = {<<calls[t], "dis", slice_no[t]>>}
        /\ pc[t] = "g_step" => genGrad[t] = {<<calls[t], "gen", slice_no[t]>>}

C16_Witness ==
    /\ pc[1] = "d_step"
    /\ ~toggle_grads[1]
    /\ calls[1] = 2
    /\ slice_no[1] = 2
    /\ disP[1] >= 2
    /\ disGrad[1] = {<<2, "dis", 2>>}
    /\ genGrad[1] = {}
====
